---------------------------- MODULE Spec2Model ----------------------------
(***************************************************************************)
(* Model of src/main.c: the STM8S105 PSU-tick generator.                   *)
(*                                                                         *)
(* The state is the memory-mapped registers the program touches, the      *)
(* locals of main()'s loop and the position of main() in its code.  The    *)
(* 16-bit timer counter TIM1_CNTRH:TIM1_CNTRL is one variable, TIM1_CNTR,  *)
(* read and written one byte at a time as the code does; the hardware      *)
(* increments it on its own (action Tick) while TIM1_CR1 bit 0 is set.     *)
(***************************************************************************)
EXTENDS Integers, Naturals, FiniteSets

(***************************************************************************)
(* Program constants (main.c lines 79-82).                                 *)
(***************************************************************************)
TICK_PIN == 1
FREQ_SELECT_PIN == 2
TICKS_50HZ == 40000
TICKS_60HZ == 33333

\* The base oscillator frequency assumed by the code (header, "Let F0 = 16MHz").
F_BASE == 16000000
\* The two target frequencies of the header comment.
HZ_50 == 50
HZ_60 == 60
\* One byte and one 16-bit word of the target.
ByteRange == 256
WordRange == 65536

(***************************************************************************)
(* Bounds of the model.                                                    *)
(***************************************************************************)
\* Counter increments the hardware may make during one loop iteration (and
\* during the part of the startup that follows the timer's enabling).
MaxTicksPerIter == 1
\* The count of reset_clock calls kept per period stops at this value, which
\* stands for "this many or more".
MaxCount == 2

\* A local of the loop that no iteration has assigned yet.
NoValue == 0 - 1

(***************************************************************************)
(* C operators on unsigned values.                                         *)
(***************************************************************************)
RECURSIVE BitAnd(_, _)
BitAnd(a, b) ==
    IF a = 0 \/ b = 0 THEN 0
    ELSE (a % 2) * (b % 2) + 2 * BitAnd(a \div 2, b \div 2)

RECURSIVE BitOr(_, _)
BitOr(a, b) ==
    IF a = 0 THEN b
    ELSE IF b = 0 THEN a
    ELSE (IF a % 2 = 1 \/ b % 2 = 1 THEN 1 ELSE 0) + 2 * BitOr(a \div 2, b \div 2)

\* ~x on a 16-bit int (sdcc's int), the width the operand is promoted to.
BitNot(x) == (WordRange - 1) - x

\* A store to an 8-bit register keeps the low byte.
ToByte(x) == x % ByteRange

VARIABLES
    pc,          \* position of main()
    CLK_CKDIVR,  \* clock divider register
    TIM1_PSCRH,  \* timer 1 prescaler, high byte
    TIM1_PSCRL,  \* timer 1 prescaler, low byte
    TIM1_CR1,    \* timer 1 control register 1 (bit 0: counter enable)
    TIM1_CNTR,   \* timer 1 counter, TIM1_CNTRH * 256 + TIM1_CNTRL
    PB_ODR,      \* port B output data register
    PB_IDR,      \* port B input data register (driven from outside)
    PB_DDR,      \* port B data direction register
    PB_CR1,      \* port B control register 1
    ticks,       \* local of the loop: the period selected by this iteration
    h,           \* local of clock(): the high byte read
    ck0,         \* local of the loop: the counter as sampled
    ck,          \* local of the loop: the logical counter value
    didReset,    \* whether this iteration has called reset_clock()
    budget,      \* counter increments still allowed before the next iteration
    incs,        \* measurement: increments since the counter last held zero
    highTicks,   \* measurement: of those, increments made with the tick pin high
    periodTicks, \* measurement: incs at the counter's last return to zero
    periodHigh,  \* measurement: highTicks at the counter's last return to zero
    resetCalls,  \* history: calls of reset_clock() since the counter last became zero
    risen,       \* history: whether the tick pin has gone from low to high since then
    snapStart    \* history: the counter when the running clock() call read its high byte

regs == <<CLK_CKDIVR, TIM1_PSCRH, TIM1_PSCRL, TIM1_CR1, PB_ODR, PB_DDR, PB_CR1>>
locals == <<ticks, h, ck0, ck, didReset>>
measures == <<incs, highTicks, periodTicks, periodHigh>>
history == <<resetCalls, risen, snapStart>>
vars == <<pc, regs, TIM1_CNTR, PB_IDR, locals, budget, measures, history>>

(***************************************************************************)
(* Register contents before main() runs, and the levels of the input port. *)
(***************************************************************************)
PriorValues == {0, ByteRange - 1}
IDRValues == {0, FREQ_SELECT_PIN, (ByteRange - 1) - FREQ_SELECT_PIN}

StartupPcs == {"S_ckdivr", "S_pscrh", "S_pscrl", "S_cr1", "S_ddr", "S_pcr1", "S_odr"}
LoopPcs == {"L_sel", "L_clk_h", "L_clk_l", "L_rst_h", "L_rst_l", "L_out"}

(***************************************************************************)
(* The hardware the registers configure.                                   *)
(***************************************************************************)
\* TIM1_CR1 bit 0 (CEN) lets the counter run.
TimerEnabled == TIM1_CR1 % 2 = 1

\* CLK_CKDIVR bits 4:3 (HSIDIV) divide the oscillator by 1, 2, 4 or 8; 0x00 is
\* "full 16MHz operation (no prescaling)".
ClockDivisor(ckdivr) == 2 ^ ((ckdivr \div 8) % 4)

\* "the prescaler value is defined as PSCR+1 (so that 0 is divide by 1)".
TimerDivisorNoPlusOne(pscrh, pscrl) == pscrh * ByteRange + pscrl
TimerDivisor(pscrh, pscrl) == pscrh * ByteRange + pscrl + 1

\* Increments per second of the counter, as the registers stand.
CounterRate ==
    (F_BASE \div ClockDivisor(CLK_CKDIVR)) \div TimerDivisor(TIM1_PSCRH, TIM1_PSCRL)

\* The two bytes of the counter.
TIM1_CNTRH == TIM1_CNTR \div ByteRange
TIM1_CNTRL == TIM1_CNTR % ByteRange

(***************************************************************************)
(* The pure computations of the loop.                                      *)
(***************************************************************************)
\* line 127: PB_IDR & FREQ_SELECT_PIN ? TICKS_60HZ : TICKS_50HZ
SelectTicksInverted(idr) ==
    IF BitAnd(idr, FREQ_SELECT_PIN) # 0 THEN TICKS_50HZ ELSE TICKS_60HZ
SelectTicks(idr) ==
    IF BitAnd(idr, FREQ_SELECT_PIN) # 0 THEN TICKS_60HZ ELSE TICKS_50HZ

\* line 88: (unsigned short)(h) << 8 | l
MakeWord(hi, lo) == BitOr((hi * ByteRange) % WordRange, lo)

\* line 131: ck0 > ticks
OvershootAlways(c, t) == c >= 0
OvershootLate(c, t) == c > t + 1
OvershootAtOrAbove(c, t) == c >= t
Overshoot(c, t) == c > t

\* lines 130-134: the logical counter value after the reset-on-overshoot step
LogicalCounterKeep(c, t) == c
LogicalCounter(c, t) == IF Overshoot(c, t) THEN 0 ELSE c

\* line 136: ck > ticks/2
OutputHighAtOrAbove(c, t) == c >= t \div 2
OutputHigh(c, t) == c > t \div 2

\* lines 137 and 139: PB_ODR |= TICK_PIN and PB_ODR &= ~TICK_PIN
SetTickAssign(odr) == TICK_PIN
SetTick(odr) == ToByte(BitOr(odr, TICK_PIN))
ClearTickNoOp(odr) == odr
ClearTick(odr) == ToByte(BitAnd(odr, BitNot(TICK_PIN)))

\* The level of the tick pin's bit in an output register value.
TickBit(odr) == BitAnd(odr, TICK_PIN)

\* One more call in the per-period count, which stops at MaxCount.
CountUp(n) == IF n < MaxCount THEN n + 1 ELSE MaxCount

(***************************************************************************)
(* Init: the registers hold what they held before main(); the timer is     *)
(* disabled with its counter at zero; the loop's locals do not exist yet.  *)
(***************************************************************************)
Init ==
    /\ pc = "S_ckdivr"
    /\ CLK_CKDIVR \in PriorValues
    /\ TIM1_PSCRH \in PriorValues
    /\ TIM1_PSCRL \in PriorValues
    /\ TIM1_CR1 = 0
    /\ TIM1_CNTR = 0
    /\ PB_ODR \in PriorValues
    /\ PB_IDR \in IDRValues
    /\ PB_DDR \in PriorValues
    /\ PB_CR1 \in PriorValues
    /\ ticks = NoValue
    /\ h = NoValue
    /\ ck0 = NoValue
    /\ ck = NoValue
    /\ didReset = FALSE
    /\ budget = 0
    /\ incs = 0
    /\ highTicks = 0
    /\ periodTicks = NoValue
    /\ periodHigh = NoValue
    /\ resetCalls = 0
    /\ risen = FALSE
    /\ snapStart = NoValue

(***************************************************************************)
(* Startup, main.c lines 102-123, one action per register write.           *)
(***************************************************************************)
\* line 102: CLK_CKDIVR = 0x00
WriteCkdivr ==
    /\ pc = "S_ckdivr"
    /\ CLK_CKDIVR' = 0
    /\ pc' = "S_pscrh"
    /\ UNCHANGED <<TIM1_PSCRH, TIM1_PSCRL, TIM1_CR1, PB_ODR, PB_DDR, PB_CR1,
                   TIM1_CNTR, PB_IDR, locals, budget, measures, history>>

\* line 110: TIM1_PSCRH = 0x00
WritePscrh ==
    /\ pc = "S_pscrh"
    /\ TIM1_PSCRH' = 0
    /\ pc' = "S_pscrl"
    /\ UNCHANGED <<CLK_CKDIVR, TIM1_PSCRL, TIM1_CR1, PB_ODR, PB_DDR, PB_CR1,
                   TIM1_CNTR, PB_IDR, locals, budget, measures, history>>

\* line 111: TIM1_PSCRL = 0x08 - 1
WritePscrlNoMinusOne ==
    /\ pc = "S_pscrl"
    /\ TIM1_PSCRL' = 8
    /\ pc' = "S_cr1"
    /\ UNCHANGED <<CLK_CKDIVR, TIM1_PSCRH, TIM1_CR1, PB_ODR, PB_DDR, PB_CR1,
                   TIM1_CNTR, PB_IDR, locals, budget, measures, history>>

WritePscrl ==
    /\ pc = "S_pscrl"
    /\ TIM1_PSCRL' = 8 - 1
    /\ pc' = "S_cr1"
    /\ UNCHANGED <<CLK_CKDIVR, TIM1_PSCRH, TIM1_CR1, PB_ODR, PB_DDR, PB_CR1,
                   TIM1_CNTR, PB_IDR, locals, budget, measures, history>>

\* line 112: TIM1_CR1 = 0x01; the counter runs from here on
EnableTimer ==
    /\ pc = "S_cr1"
    /\ TIM1_CR1' = 1
    /\ budget' = MaxTicksPerIter
    /\ pc' = "S_ddr"
    /\ UNCHANGED <<CLK_CKDIVR, TIM1_PSCRH, TIM1_PSCRL, PB_ODR, PB_DDR, PB_CR1,
                   TIM1_CNTR, PB_IDR, locals, measures, history>>

\* line 119: PB_DDR = TICK_PIN | FREQ_SELECT_PIN
WriteDdr ==
    /\ pc = "S_ddr"
    /\ PB_DDR' = ToByte(BitOr(TICK_PIN, FREQ_SELECT_PIN))
    /\ pc' = "S_pcr1"
    /\ UNCHANGED <<CLK_CKDIVR, TIM1_PSCRH, TIM1_PSCRL, TIM1_CR1, PB_ODR, PB_CR1,
                   TIM1_CNTR, PB_IDR, locals, budget, measures, history>>

\* line 120: PB_CR1 = TICK_PIN | FREQ_SELECT_PIN
WritePcr1 ==
    /\ pc = "S_pcr1"
    /\ PB_CR1' = ToByte(BitOr(TICK_PIN, FREQ_SELECT_PIN))
    /\ pc' = "S_odr"
    /\ UNCHANGED <<CLK_CKDIVR, TIM1_PSCRH, TIM1_PSCRL, TIM1_CR1, PB_ODR, PB_DDR,
                   TIM1_CNTR, PB_IDR, locals, budget, measures, history>>

\* line 123: PB_ODR &= ~TICK_PIN, then the loop is entered
StartTickLow ==
    /\ pc = "S_odr"
    /\ PB_ODR' = ClearTick(PB_ODR)
    /\ pc' = "L_sel"
    /\ UNCHANGED <<CLK_CKDIVR, TIM1_PSCRH, TIM1_PSCRL, TIM1_CR1, PB_DDR, PB_CR1,
                   TIM1_CNTR, PB_IDR, locals, budget, measures, history>>

Startup ==
    \/ WriteCkdivr
    \/ WritePscrh
    \/ WritePscrl
    \/ EnableTimer
    \/ WriteDdr
    \/ WritePcr1
    \/ StartTickLow

(***************************************************************************)
(* The loop, main.c lines 125-141.                                         *)
(***************************************************************************)
\* line 127: a new iteration samples the select input and picks the period; the
\* locals of the iteration before are gone (they are block-scoped, lines 127-130)
SampleSelect ==
    /\ pc = "L_sel"
    /\ ticks' = SelectTicks(PB_IDR)
    /\ h' = NoValue
    /\ ck0' = NoValue
    /\ ck' = NoValue
    /\ didReset' = FALSE
    /\ budget' = MaxTicksPerIter
    /\ pc' = "L_clk_h"
    /\ UNCHANGED <<regs, TIM1_CNTR, PB_IDR, measures, history>>

\* line 86: clock() reads the high byte
ClockReadHigh ==
    /\ pc = "L_clk_h"
    /\ h' = TIM1_CNTRH
    /\ snapStart' = TIM1_CNTR
    /\ pc' = "L_clk_l"
    /\ UNCHANGED <<regs, TIM1_CNTR, PB_IDR, ticks, ck0, ck, didReset, budget, measures,
                   resetCalls, risen>>

\* lines 87-88, 128, 130-131: clock() reads the low byte and returns the word;
\* ck0 and ck take it, and the comparison with ticks picks the branch
ClockReadLow ==
    /\ pc = "L_clk_l"
    /\ ck0' = MakeWord(h, TIM1_CNTRL)
    /\ ck' = ck0'
    /\ pc' = IF Overshoot(ck0', ticks) THEN "L_rst_h" ELSE "L_out"
    /\ snapStart' = NoValue
    /\ UNCHANGED <<regs, TIM1_CNTR, PB_IDR, ticks, h, didReset, budget, measures,
                   resetCalls, risen>>

\* lines 132 and 96: reset_clock() is called and writes the high byte
ResetWriteHigh ==
    /\ pc = "L_rst_h"
    /\ TIM1_CNTR' = (ByteRange - 1) * ByteRange + TIM1_CNTRL
    /\ didReset' = TRUE
    /\ resetCalls' = CountUp(resetCalls)
    /\ pc' = "L_rst_l"
    /\ UNCHANGED <<regs, PB_IDR, ticks, h, ck0, ck, budget, measures, risen, snapStart>>

\* lines 97 and 133: reset_clock() writes the low byte and returns; ck = 0
ResetWriteLow ==
    /\ pc = "L_rst_l"
    /\ TIM1_CNTR' = TIM1_CNTRH * ByteRange + (ByteRange - 1)
    /\ ck' = LogicalCounter(ck0, ticks)
    /\ pc' = "L_out"
    /\ UNCHANGED <<regs, PB_IDR, ticks, h, ck0, didReset, budget, measures, history>>

\* lines 136-140: the duty-cycle decision drives the tick pin
DriveOutput ==
    /\ pc = "L_out"
    /\ PB_ODR' = IF OutputHigh(ck, ticks) THEN SetTick(PB_ODR) ELSE ClearTick(PB_ODR)
    /\ risen' = (risen \/ (TickBit(PB_ODR) = 0 /\ TickBit(PB_ODR') # 0))
    /\ pc' = "L_sel"
    /\ UNCHANGED <<CLK_CKDIVR, TIM1_PSCRH, TIM1_PSCRL, TIM1_CR1, PB_DDR, PB_CR1,
                   TIM1_CNTR, PB_IDR, locals, budget, measures, resetCalls, snapStart>>

Loop ==
    \/ SampleSelect
    \/ ClockReadHigh
    \/ ClockReadLow
    \/ ResetWriteHigh
    \/ ResetWriteLow
    \/ DriveOutput

(***************************************************************************)
(* The environment: the counter's own increments and the select input.     *)
(***************************************************************************)
\* The per-period history starts again when an increment takes the counter to zero.
NewPeriodAtZero ==
    IF TIM1_CNTR' = 0
    THEN resetCalls' = 0 /\ risen' = FALSE
    ELSE UNCHANGED <<resetCalls, risen>>

\* The enabled counter increments at any point between two steps of main().
Tick ==
    /\ TimerEnabled
    /\ budget > 0
    /\ budget' = budget - 1
    /\ TIM1_CNTR' = (TIM1_CNTR + 1) % WordRange
    /\ NewPeriodAtZero
    /\ UNCHANGED <<pc, regs, PB_IDR, locals, measures, snapStart>>

\* The level on the input port changes at any time; main() reads the port at
\* line 127 only, so a change is taken when main() is about to read it.
SelectChange ==
    /\ pc = "L_sel"
    /\ \E v \in IDRValues \ {PB_IDR} : PB_IDR' = v
    /\ UNCHANGED <<pc, regs, TIM1_CNTR, locals, budget, measures, history>>

Next == Startup \/ Loop \/ Tick \/ SelectChange

Spec == Init /\ [][Next]_vars

(***************************************************************************)
(* The loop sampling the counter at every counter value, the select input  *)
(* held: the counter increments only between two iterations, once the      *)
(* iteration before has sampled the value it holds.  The increments and    *)
(* those made with the tick pin high are counted from one return of the    *)
(* counter to zero to the next.                                            *)
(***************************************************************************)
SyncTick ==
    /\ TimerEnabled
    /\ pc = "L_sel"
    /\ ck0 = TIM1_CNTR
    /\ TIM1_CNTR' = (TIM1_CNTR + 1) % WordRange
    /\ LET n == incs + 1
           k == highTicks + (IF TickBit(PB_ODR) # 0 THEN 1 ELSE 0)
       IN  IF TIM1_CNTR' = 0
           THEN /\ periodTicks' = n
                /\ periodHigh' = k
                /\ incs' = 0
                /\ highTicks' = 0
           ELSE /\ incs' = n
                /\ highTicks' = k
                /\ UNCHANGED <<periodTicks, periodHigh>>
    /\ NewPeriodAtZero
    /\ UNCHANGED <<pc, regs, PB_IDR, locals, budget, snapStart>>

NextSync == Startup \/ Loop \/ SyncTick

SpecSync == Init /\ [][NextSync]_vars

\* The same with the scheduling the hardware gives: the CPU always executes the
\* next statement of main() (there are no interrupts and no blocking calls), and
\* the enabled counter keeps incrementing: its increment, possible again after
\* every iteration, is not put off for ever.
SpecFair == SpecSync /\ WF_vars(Startup \/ Loop) /\ SF_vars(SyncTick)

\* The counter incrementing at any point, as in Spec, with the select input held
\* at the level it had at startup.
NextHeld == Startup \/ Loop \/ Tick

SpecHeld == Init /\ [][NextHeld]_vars

(***************************************************************************)
(* Claims.                                                                 *)
(***************************************************************************)
\* The select level on the input port: bit 1 of PB_IDR.
SelectHigh == (PB_IDR \div 2) % 2 = 1
\* An iteration has run to its end and its locals still stand.
IterationDone == pc = "L_sel" /\ ck # NoValue
\* The tick pin is driven high.
TickHigh == PB_ODR % 2 = 1
\* Half of the period of the running iteration, rounded down: 20,000 for
\* 40,000 and 16,666 for 33,333.
HalfPeriod == IF ticks = 40000 THEN 20000 ELSE 16666

\* C1: at the end of every iteration the logical counter value is the sampled
\* counter, or 0 when the iteration reset it, and the tick output is high if
\* and only if that value is strictly greater than 20,000 with the period
\* 40,000 and strictly greater than 16,666 with the period 33,333.
C1_DutyCycleDecision ==
    IterationDone =>
        /\ ticks \in {40000, 33333}
        /\ ck = (IF didReset THEN 0 ELSE ck0)
        /\ TickHigh <=> ck > HalfPeriod

\* C1 witness: a 60 Hz iteration that sampled 16,667, the first value above
\* the midpoint 16,666, has driven the output high.
C1_Witness ==
    IterationDone /\ ticks = 33333 /\ ck0 = 16667 /\ ck = 16667 /\ TickHigh

C3_PeriodFollowsSelect ==
    [][(pc = "L_sel" /\ pc' = "L_clk_h") =>
          ticks' = (IF SelectHigh THEN 33333 ELSE 40000)]_vars

\* C3 witness: an iteration has just taken the period 33,333 while the output
\* is still high at a counter value above 33,400: the iteration before decided
\* "high" there, which only the period 40,000 allows, so the select input
\* changed between the two and the very next iteration used the new period.
C3_Witness ==
    pc = "L_clk_h" /\ ticks = 33333 /\ SelectHigh /\ TickHigh /\ TIM1_CNTR > 33400

\* The counter has returned to zero at least once, so that one full period,
\* from zero to zero, has been measured.
PeriodMeasured == periodTicks # NoValue

\* C4: with the select input held low and the loop sampling every counter
\* value, one full period is 40,000 counter increments, exactly 20,000 of them
\* made with the tick output high (a high fraction of exactly 50%).
C4_FiftyHertzHalfHigh ==
    (PeriodMeasured /\ ~SelectHigh) => (periodHigh = 20000 /\ periodTicks = 40000)

\* C5: with the select input held high and the loop sampling every counter
\* value, one full period is 33,333 counter increments, exactly 16,667 of them
\* made with the tick output high.
C5_SixtyHertzHighTicks ==
    (PeriodMeasured /\ SelectHigh) => (periodHigh = 16667 /\ periodTicks = 33333)

\* C6: with the select input held and the loop sampling every counter value,
\* the number of counter increments between two consecutive returns of the
\* counter to zero is the selected period constant.
C6_ResetEveryPeriod ==
    PeriodMeasured => periodTicks = (IF SelectHigh THEN TICKS_60HZ ELSE TICKS_50HZ)

\* C7: in every state of the control loop the tick pin is a push-pull output
\* (its PB_DDR and PB_CR1 bits are set) and the frequency-select pin is an
\* input (its PB_DDR bit is clear).
C7_PinDirections ==
    pc \in LoopPcs =>
        /\ BitAnd(PB_DDR, TICK_PIN) # 0
        /\ BitAnd(PB_CR1, TICK_PIN) # 0
        /\ BitAnd(PB_DDR, FREQ_SELECT_PIN) = 0

\* C8: the tick output is low when the loop is first entered, whatever PB_ODR
\* held before, and in the loop it goes from low to high only by an iteration
\* whose sampled counter is strictly greater than half of its period and not
\* greater than the period.
C8_LowUntilHalfPeriod ==
    /\ [](pc = "L_sel" /\ ticks = NoValue => ~TickHigh)
    /\ [][(pc \in LoopPcs /\ ~TickHigh /\ TickHigh') =>
             (pc = "L_out" /\ ck0 > HalfPeriod /\ ck0 <= ticks)]_vars

\* C8 witness: the loop is entered for the first time with the tick bit low
\* and every other bit of PB_ODR still set: the register held 0xFF before.
C8_Witness ==
    pc = "L_sel" /\ ticks = NoValue /\ PB_ODR = 254

\* C9: once the startup has run, the clock divider holds 0, the prescaler 7
\* (divide by 8), the counter increments 2,000,000 times per second, and the
\* period constants are floor(2,000,000/50) = 40,000 (exact) and
\* floor(2,000,000/60) = 33,333 (truncated).
C9_CounterRateAndPeriods ==
    pc \in LoopPcs =>
        /\ CLK_CKDIVR = 0
        /\ TIM1_PSCRH * 256 + TIM1_PSCRL = 7
        /\ CounterRate = 2000000
        /\ TICKS_50HZ = CounterRate \div HZ_50
        /\ TICKS_50HZ * HZ_50 = CounterRate
        /\ TICKS_60HZ = CounterRate \div HZ_60
        /\ TICKS_60HZ * HZ_60 < CounterRate

\* C9 witness: the loop runs with the counter enabled at 2,000,000 increments
\* per second.
C9_Witness ==
    pc = "L_clk_h" /\ TimerEnabled /\ CounterRate = 2000000 /\ TIM1_PSCRL = 7

\* C10: when the sampled counter does not exceed the period, the
\* reset-on-overshoot step has done nothing: reset_clock was not called, the
\* logical counter is the sampled value, applying the step again leaves it
\* unchanged, and the output is driven as the sampled value decides.
C10_ResetStepNoOp ==
    /\ (pc = "L_out" /\ ck0 <= ticks) =>
          /\ ~didReset
          /\ ck = ck0
          /\ LogicalCounter(ck, ticks) = ck0
          /\ LogicalCounter(LogicalCounter(ck, ticks), ticks) = ck0
    /\ (IterationDone /\ ck0 <= ticks) =>
          /\ ~didReset
          /\ TickHigh <=> ck0 > HalfPeriod

\* C10 witness: an iteration sampled exactly its period, 40,000, and reached
\* the output decision without a reset.
C10_Witness ==
    pc = "L_out" /\ ticks = 40000 /\ ck0 = 40000 /\ ck = 40000 /\ ~didReset

LoopStep == pc \in LoopPcs /\ pc' # pc

\* C12: the step that completes reset_clock (its low-byte write) leaves the
\* counter at its maximum 0xFFFF, whatever increments of the counter came
\* between the call's two byte writes and whatever the counter held at the call.
C12_ResetLeavesMaximum ==
    [][(pc = "L_rst_l" /\ pc' = "L_out") => TIM1_CNTR' = WordRange - 1]_vars

\* C13: the value clock() returns is one the counter held between the start of
\* the call (its high-byte read) and its end (its low-byte read): the value at
\* the start plus some number of the increments made during the call.
C13_ClockIsSnapshot ==
    [][(pc = "L_clk_l" /\ pc' # pc) =>
          \E k \in 0..((TIM1_CNTR - snapStart + WordRange) % WordRange) :
              ck0' = (snapStart + k) % WordRange]_vars

\* C14: whenever an increment takes the counter back to zero, reset_clock has
\* been called exactly once since the counter's previous return to zero.
C14_OneResetPerPeriod ==
    [][(TIM1_CNTR # 0 /\ TIM1_CNTR' = 0) => resetCalls = 1]_vars

C16_StartupOnceInOrder ==
    /\ [][pc' # pc =>
            \/ pc \in LoopPcs /\ pc' \in LoopPcs
            \/ pc = "S_ckdivr" /\ pc' = "S_pscrh" /\ CLK_CKDIVR' = 0
            \/ pc = "S_pscrh" /\ pc' = "S_pscrl" /\ TIM1_PSCRH' = 0
            \/ pc = "S_pscrl" /\ pc' = "S_cr1" /\ TIM1_PSCRL' = 7
            \/ pc = "S_cr1" /\ pc' = "S_ddr" /\ ~TimerEnabled /\ TimerEnabled'
            \/ pc = "S_ddr" /\ pc' = "S_pcr1" /\ BitAnd(PB_DDR', TICK_PIN) # 0
            \/ pc = "S_pcr1" /\ pc' = "S_odr" /\ BitAnd(PB_CR1', TICK_PIN) # 0
            \/ pc = "S_odr" /\ pc' = "L_sel" /\ ~TickHigh']_vars
    /\ [](TimerEnabled =>
            CLK_CKDIVR = 0 /\ TimerDivisor(TIM1_PSCRH, TIM1_PSCRL) = 8)
    /\ []((ticks # NoValue \/ h # NoValue \/ TIM1_CNTR # 0) =>
            /\ CLK_CKDIVR = 0
            /\ TimerDivisor(TIM1_PSCRH, TIM1_PSCRL) = 8
            /\ TimerEnabled)
    /\ []((ticks # NoValue \/ h # NoValue) =>
            /\ pc \in LoopPcs
            /\ BitAnd(PB_DDR, TICK_PIN) # 0
            /\ BitAnd(PB_CR1, TICK_PIN) # 0)

\* C16 witness: the first counter read of the first iteration, all the startup
\* writes done, every register having held 0xFF before main().
C16_Witness ==
    /\ pc = "L_clk_l"
    /\ h = 0
    /\ TIM1_CNTR = 0
    /\ CLK_CKDIVR = 0
    /\ TIM1_PSCRH = 0
    /\ TIM1_PSCRL = 7
    /\ TimerEnabled
    /\ PB_DDR = 3
    /\ PB_CR1 = 3
    /\ PB_ODR = 254

\* C17: a step of the loop leaves the clock divider, the prescaler, the timer
\* enable, the pin direction and the pin mode registers alone, changes no bit
\* of PB_ODR other than the tick pin's, and changes the counter only in an
\* iteration whose sample exceeded its period; in the loop these registers
\* hold the values written at startup.
C17_LoopFrame ==
    /\ [][LoopStep =>
            /\ UNCHANGED <<CLK_CKDIVR, TIM1_PSCRH, TIM1_PSCRL, TIM1_CR1, PB_DDR, PB_CR1>>
            /\ PB_ODR' \div 2 = PB_ODR \div 2
            /\ (TIM1_CNTR' # TIM1_CNTR => (ck0 # NoValue /\ ck0 > ticks))]_vars
    /\ [](pc \in LoopPcs =>
            /\ CLK_CKDIVR = 0
            /\ TIM1_PSCRH = 0
            /\ TIM1_PSCRL = 7
            /\ TIM1_CR1 = 1
            /\ PB_DDR = 3
            /\ PB_CR1 = 3)

\* C17 witness: an iteration has driven the tick pin high with every other
\* bit of PB_ODR still set as it was before main().
C17_Witness ==
    IterationDone /\ ~didReset /\ PB_ODR = 255

\* C18: with the select input held, the tick output goes from low to high at
\* most once between two returns of the counter to zero, and in the loop it
\* goes from high to low only by an iteration whose sample exceeded the period.
C18_GlitchFree ==
    [][/\ (~TickHigh /\ TickHigh') => ~risen
       /\ (pc \in LoopPcs /\ TickHigh /\ ~TickHigh') => ck0 > ticks]_vars

=============================================================================
